---- MODULE Spec2Model ----
(* Model of trunk's build orchestrator (src/build.rs), its build event     *)
(* channel and the development server (src/serve.rs).                      *)
EXTENDS Integers, Sequences, FiniteSets, TLC

(***************************************************************************)
(* Bounds of the model.                                                    *)
(***************************************************************************)
MaxBuilds == 2

MaxClients == 2

\* worker threads of the async executor that runs the spawned tasks
Workers == 2

Clients == 1..MaxClients

(***************************************************************************)
(* Plain data.                                                             *)
(***************************************************************************)
None == "None"

Range(s) == {s[i] : i \in 1..Len(s)}

\* enum BuildEvent { Building, Success, Error(String) }
Building == [type |-> "Building", error |-> ""]

Success == [type |-> "Success", error |-> ""]

Error(msg) == [type |-> "Error", error |-> msg]

\* the texts of the failures do_build can return (err.to_string())
DirError == "failed to create dist dir"

PipelineError == "html pipeline failed"

IsTerminal(ev) == ev.type \in {"Success", "Error"}

\* serde_json::to_string(&event) under #[derive(Serialize)] #[serde(tag = "type")]:
\* a unit variant becomes the object {"type": "<VariantName>"}; the newtype
\* variant Error(String) holds a string, which an internally tagged enum
\* cannot serialize, so to_string returns Err.  A JSON object is modelled as
\* its sequence of <<key, value>> members.
to_string(ev) ==
    IF ev.type = "Error"
    THEN [ok |-> FALSE, json |-> << >>]
    ELSE [ok |-> TRUE, json |-> << <<"type", ev.type>> >>]

(***************************************************************************)
(* Configuration (RtcServe): chosen once, never mutated.                   *)
(***************************************************************************)
\* Option<T>: a sequence of no or one value
NoneOpt == << >>

Some(x) == <<x>>

IsSome(o) == Len(o) = 1

Unwrap(o) == o[1]

\* a proxy rule: the path prefix its handler is bound to and its backend
SingleBackend == [prefix |-> "v1", backend |-> "S"]

ProxyList == << [prefix |-> "api", backend |-> "A"], [prefix |-> "ws", backend |-> "B"] >>

Configs ==
    [proxy_backend : {NoneOpt, Some(SingleBackend)},
     proxies       : {NoneOpt, Some(ProxyList)},
     hot_reload    : BOOLEAN,
     open          : BOOLEAN]

\* files of the output directory
Files == {"index.html", "app.js"}

\* request paths, as segment sequences below "/" (public_url is "/")
Paths == { <<"index.html">>, <<"app.js">>, <<"nofile">>, <<"build_events">>,
           <<"v1", "z">>, <<"api", "x">>, <<"ws", "y">> }

VARIABLES
    cfg,             \* Arc<RtcServe>
    build_event_tx,  \* BuildSystem.build_event_tx: "None", "Some", "Dropped"
    runPc,           \* position of ServeSystem::run
    buildPc,         \* position of BuildSystem::build
    buildNo,         \* number of calls of build() so far
    res,             \* result of do_build of the call in progress
    returns,         \* return values of the calls of build() that returned
    steps,           \* what the call of build() in progress (or the last one) has done:
                     \* the results of its sends and the steps of do_build
    progress,        \* state of the ProgressBar
    sent,            \* every event build() handed to send, in order
    evBuild,         \* for each sent event, the call of build() that sent it
    rcvd,            \* number of events taken from the channel (FIFO head)
    dist,            \* output directory: file -> build that wrote it, 0 = absent
    serverPc,        \* "none", "spawned", "listening", "failed"
    routes,          \* routes registered on the tide app
    browser,         \* whether open::that was called
    conn,            \* per client: "none", "open", "closed"
    loop,            \* per client: state of its /build_events loop
    subAt,           \* per client: Len(sent) when its loop started
    taken,           \* per client: indexes (in sent) of the events its loop received
    pushed,          \* per client: messages sender.send delivered to it
    http             \* the last HTTP exchange: request, route, inner response, response

vars == <<cfg, build_event_tx, runPc, buildPc, buildNo, res, returns, steps, progress,
          sent, evBuild, rcvd, dist, serverPc, routes, browser,
          conn, loop, subAt, taken, pushed, http>>

buildVars == <<buildPc, buildNo, res, returns, steps, progress, sent, evBuild, dist>>

clientVars == <<conn, loop, subAt, taken, pushed>>

\* the channel's queue: what was sent and not yet received
chan == SubSeq(sent, rcvd + 1, Len(sent))

\* build_event_rx.recv() is crossbeam's blocking receive: a running
\* /build_events loop keeps the worker thread its task runs on, also while it
\* waits for an event
BusyWorkers == Cardinality({c \in Clients : loop[c] = "running"})

\* a spawned task (a connection's handler, a pipeline node) needs a worker
\* thread that is not blocked
FreeWorker == BusyWorkers < Workers


(***************************************************************************)
(* BuildSystem (src/build.rs).                                             *)
(***************************************************************************)
\* mutant: the event jumps the queue
M_send_build_event(tx, q, ev) ==
    IF tx # None THEN <<ev>> \o q ELSE q

\* send_build_event: send on the channel if one is configured; the result of
\* send is discarded.  q is the sequence of events sent so far.
send_build_event(tx, q, ev) ==
    IF tx # None THEN Append(q, ev) ELSE q

\* mutant: the Error event loses the text of the failure
M_terminal_event_NoMessage(r) ==
    IF r = "Ok" THEN Success ELSE Error("")

\* mutant: the Err arm sends Success too
M_terminal_event(r) == Success

\* the event build() sends for the result of do_build
terminal_event(r) ==
    IF r = "Ok" THEN Success ELSE Error(r)

\* the ProgressBar: steady tick, prefix, message, finished
ProgressState(tick, prefix, message, finished) ==
    [tick |-> tick, prefix |-> prefix, message |-> message, finished |-> finished]

\* a new ProgressBar
IdleProgress == ProgressState(FALSE, "", "", FALSE)

\* build(): reset, enable_steady_tick, set_prefix(BUILDING), set_message
busy_progress == ProgressState(TRUE, "BUILDING", "starting build", FALSE)

\* mutant: the Err arm finishes the bar like the Ok arm
M_terminal_progress(r) == ProgressState(FALSE, "SUCCESS", "success", TRUE)

\* build(): disable_steady_tick, then set_prefix and finish_with_message of
\* the arm of the match
terminal_progress(r) ==
    IF r = "Ok"
    THEN ProgressState(FALSE, "SUCCESS", "success", TRUE)
    ELSE ProgressState(FALSE, "ERROR", "error", TRUE)

\* the result of Sender::send: there is no send without a channel; send on
\* an unbounded channel never blocks and fails only when every Receiver is
\* dropped
send_result(tx, rxDropped) ==
    IF tx = None THEN "skipped" ELSE IF rxDropped THEN "Err" ELSE "Ok"

\* mutant: a failed send becomes the result of build()
M_build_return(r, sendRes) ==
    IF sendRes = "Err" THEN "send failed" ELSE r

\* the value build() returns: the result of do_build; send_build_event
\* discards the result of send (let _ =)
build_return(r, sendRes) == r

\* mutant: a failed create_dir_all is ignored
M_after_create_dir(ok) == "pipeline"

\* do_build: fs::create_dir_all(..).await? returns early on failure
after_create_dir(ok) == IF ok THEN "pipeline" ELSE "finish"

\* the paths the html pipeline may have written when it fails: index.html is
\* written last, so it is untouched; assets may or may not have been written
PartialDists(d, n) ==
    {[d EXCEPT !["app.js"] = v] : v \in {d["app.js"], n}}

\* build(): send Building, reset the progress bar, enter do_build
BuildStart ==
    /\ buildPc = "idle"
    /\ buildNo < MaxBuilds
    /\ build_event_tx # "Dropped"
    /\ runPc \in {"start", "spawned", "waiting", "standalone"}
    /\ runPc' = IF runPc = "start" THEN "initial_build" ELSE runPc
    /\ buildNo' = buildNo + 1
    /\ sent' = send_build_event(build_event_tx, sent, Building)
    /\ evBuild' = IF Len(sent') > Len(sent) THEN Append(evBuild, buildNo') ELSE evBuild
    /\ progress' = busy_progress
    /\ res' = None
    /\ steps' = << send_result(build_event_tx, serverPc = "failed") >>
    /\ buildPc' = "create_dir"
    /\ UNCHANGED <<cfg, build_event_tx, returns, rcvd, dist, serverPc, routes, browser,
                   clientVars, http>>

\* do_build: fs::create_dir_all(dist)?
DoBuildCreateDir ==
    /\ buildPc = "create_dir"
    /\ \E ok \in BOOLEAN :
         /\ buildPc' = after_create_dir(ok)
         /\ res' = IF ok THEN res ELSE DirError
         /\ steps' = Append(steps, IF ok THEN "create_dir" ELSE "create_dir_failed")
    /\ UNCHANGED <<cfg, build_event_tx, runPc, buildNo, returns, progress, sent, evBuild,
                   rcvd, dist, serverPc, routes, browser, clientVars, http>>

\* do_build: html_pipeline.spawn().await?; the pipeline's nodes are tasks
\* spawned on the executor (SSEReloadScript::spawn)
DoBuildPipeline ==
    /\ buildPc = "pipeline"
    /\ FreeWorker
    /\ \/ /\ dist' = [f \in Files |-> buildNo]
          /\ res' = "Ok"
          /\ steps' = Append(steps, "spawn")
       \/ /\ dist' \in PartialDists(dist, buildNo)
          /\ res' = PipelineError
          /\ steps' = Append(steps, "spawn_failed")
    /\ buildPc' = "finish"
    /\ UNCHANGED <<cfg, build_event_tx, runPc, buildNo, returns, progress, sent, evBuild,
                   rcvd, serverPc, routes, browser, clientVars, http>>

\* build(): match res: send the terminal event, finish the progress bar, return
BuildFinish ==
    /\ buildPc = "finish"
    /\ sent' = send_build_event(build_event_tx, sent, terminal_event(res))
    /\ evBuild' = IF Len(sent') > Len(sent) THEN Append(evBuild, buildNo) ELSE evBuild
    /\ progress' = terminal_progress(res)
    /\ steps' = Append(steps, send_result(build_event_tx, serverPc = "failed"))
    /\ returns' = Append(returns, build_return(res, send_result(build_event_tx, serverPc = "failed")))
    /\ buildPc' = "idle"
    /\ runPc' = IF runPc = "initial_build" THEN "built" ELSE runPc
    /\ UNCHANGED <<cfg, build_event_tx, buildNo, res, rcvd, dist, serverPc, routes,
                   browser, clientVars, http>>

(***************************************************************************)
(* ServeSystem::spawn_server: the routes of the tide app.                  *)
(***************************************************************************)
\* app.at(public_url).serve_dir(dist): public_url is "/", so the prefix is empty
StaticRoute == [kind |-> "static", prefix |-> << >>, backend |-> None]

ProxyRoute(rule) == [kind |-> "proxy", prefix |-> <<rule.prefix>>, backend |-> rule.backend]

\* mutant: only the first rule of the list gets a handler
M_ProxyRoutes_FirstOnly(c) ==
    IF IsSome(c.proxy_backend)
    THEN {ProxyRoute(Unwrap(c.proxy_backend))}
    ELSE IF IsSome(c.proxies)
         THEN {ProxyRoute(Unwrap(c.proxies)[1])}
         ELSE {}

\* "Build proxies": if let Some(backend) = proxy_backend {..} else if let
\* Some(proxies) = proxies {..}
ProxyRoutes(c) ==
    IF IsSome(c.proxy_backend)
    THEN {ProxyRoute(Unwrap(c.proxy_backend))}
    ELSE IF IsSome(c.proxies)
         THEN {ProxyRoute(Unwrap(c.proxies)[i]) : i \in 1..Len(Unwrap(c.proxies))}
         ELSE {}

\* mutant: the endpoint is registered whatever hot_reload is
M_SseRoutes_Always(c) ==
    {[kind |-> "sse", prefix |-> <<"build_events">>, backend |-> None]}

\* if cfg.hot_reload { app.at("/build_events").get(sse::endpoint(..)) }
SseRoutes(c) ==
    IF c.hot_reload
    THEN {[kind |-> "sse", prefix |-> <<"build_events">>, backend |-> None]}
    ELSE {}

RegisteredRoutes(c) == {StaticRoute} \cup ProxyRoutes(c) \cup SseRoutes(c)

\* a route is bound to a path prefix; the sse route to its exact path
RouteMatches(r, path) ==
    /\ Len(r.prefix) <= Len(path)
    /\ SubSeq(path, 1, Len(r.prefix)) = r.prefix
    /\ r.kind = "sse" => path = r.prefix

\* the router picks the most specific of the matching routes
RouteFor(rts, path) ==
    CHOOSE r \in rts :
        /\ RouteMatches(r, path)
        /\ \A q \in rts : RouteMatches(q, path) => Len(q.prefix) <= Len(r.prefix)

(***************************************************************************)
(* Responses.                                                              *)
(***************************************************************************)
EmptyBody == <<"empty", "", 0>>

NoHeaders == <<"none", "">>

FileBody(f, ver) == <<"file", f, ver>>

Response(status, ctype, headers, body) ==
    [status |-> status, ctype |-> ctype, headers |-> headers, body |-> body]

Mime(f) == IF f = "index.html" THEN "text/html" ELSE "application/javascript"

\* serve_dir: the file below dist the path names, or 404 Not Found
ServeDir(path, d) ==
    IF Len(path) = 1 /\ path[1] \in Files /\ d[path[1]] # 0
    THEN Response(200, Mime(path[1]), NoHeaders, FileBody(path[1], d[path[1]]))
    ELSE Response(404, "none", NoHeaders, EmptyBody)

\* the statuses a backend may answer with
BackendStatuses == {200, 404, 500}

BackendResponse(b, st) == Response(st, "application/json", <<"x-backend", b>>, <<"backend", b, st>>)

\* an Err returned by an endpoint or a middleware becomes a 500 response
ErrorResponse == Response(500, "none", NoHeaders, EmptyBody)

\* ProxyHandlerHttp::proxy_request: relay the backend's response verbatim; a
\* backend that cannot be reached is an Err
proxy_request(b, reachable, st) ==
    IF reachable THEN BackendResponse(b, st) ELSE ErrorResponse

\* mutant: the document is the one read when the server started
M_load_index_html_Cached(idx) ==
    IF idx # 0 THEN [ok |-> TRUE, bytes |-> FileBody("index.html", 1)]
    ELSE [ok |-> FALSE, bytes |-> EmptyBody]

\* load_index_html: fs::read(index), idx = 0 when the file does not exist
load_index_html(idx) ==
    IF idx # 0 THEN [ok |-> TRUE, bytes |-> FileBody("index.html", idx)]
    ELSE [ok |-> FALSE, bytes |-> EmptyBody]

\* mutant: the fallback body is substituted but the status is left at 404
M_IndexHtmlMiddleware_KeepsStatus(inner, idx) ==
    IF inner.status = 404
    THEN IF load_index_html(idx).ok
         THEN Response(404, "text/html", NoHeaders, load_index_html(idx).bytes)
         ELSE ErrorResponse
    ELSE inner

\* mutant: every error status is rewritten, not only 404
M_IndexHtmlMiddleware_AnyError(inner, idx) ==
    IF inner.status >= 400
    THEN IF load_index_html(idx).ok
         THEN Response(200, "text/html", NoHeaders, load_index_html(idx).bytes)
         ELSE ErrorResponse
    ELSE inner

\* IndexHtmlMiddleware::handle: inner is the response of next.run(req)
IndexHtmlMiddleware(inner, idx) ==
    IF inner.status = 404
    THEN IF load_index_html(idx).ok
         THEN Response(200, "text/html", NoHeaders, load_index_html(idx).bytes)
         ELSE ErrorResponse
    ELSE inner

NoResponse == Response(0, "none", NoHeaders, EmptyBody)

\* strip_prefix(): the endpoint sees the path without the route's prefix
StripPrefix(r, path) == SubSeq(path, Len(r.prefix) + 1, Len(path))

NoHttp == [path |-> << >>, kind |-> "none", backend |-> None, fwd |-> << >>,
           inner |-> NoResponse, resp |-> NoResponse]

(***************************************************************************)
(* ServeSystem::run and the server.                                        *)
(***************************************************************************)
\* mutant: the initial build is spawned, not awaited
M_InitialBuildAwaited(pc) == pc \in {"initial_build", "built"}

\* run(): self.watch.build().await comes before spawn_local and spawn_server
InitialBuildAwaited(pc) == pc = "built"

\* run(): after the initial build, spawn the watch loop and the server
SpawnServer ==
    /\ InitialBuildAwaited(runPc)
    /\ runPc' = "spawned"
    /\ serverPc' = "spawned"
    /\ routes' = RegisteredRoutes(cfg)
    /\ UNCHANGED <<cfg, build_event_tx, buildVars, rcvd, browser, clientVars, http>>

\* the spawned server task: app.listen(listen_addr) binds the port, or fails
\* (the error is printed, the task ends and drops the app with its State and
\* the Receiver in it)
ServerListen ==
    /\ serverPc = "spawned"
    /\ serverPc' \in {"listening", "failed"}
    /\ UNCHANGED <<cfg, build_event_tx, runPc, buildVars, rcvd, routes, browser,
                   clientVars, http>>

\* run(): if cfg.open { open::that(http_addr) }, then await the handles
OpenBrowser ==
    /\ runPc = "spawned"
    /\ runPc' = "waiting"
    /\ browser' = cfg.open
    /\ UNCHANGED <<cfg, build_event_tx, buildVars, rcvd, serverPc, routes,
                   clientVars, http>>

\* the watch task ends: the WatchSystem and with it the only Sender is dropped
WatchStop ==
    /\ runPc \in {"spawned", "waiting"}
    /\ buildPc = "idle"
    /\ build_event_tx = "Some"
    /\ build_event_tx' = "Dropped"
    /\ UNCHANGED <<cfg, runPc, buildVars, rcvd, serverPc, routes, browser,
                   clientVars, http>>

\* one GET handled by the app: the endpoint of the matching route runs inside
\* IndexHtmlMiddleware
Request ==
    /\ serverPc = "listening"
    /\ FreeWorker
    /\ http = NoHttp
    /\ \E path \in Paths :
         LET r == RouteFor(routes, path) IN
         /\ r.kind # "sse"
         /\ \E reachable \in BOOLEAN, st \in BackendStatuses :
              LET inner == IF r.kind = "proxy"
                           THEN proxy_request(r.backend, reachable, st)
                           ELSE ServeDir(path, dist)
              IN /\ r.kind = "static" => reachable /\ st = 200
                 /\ http' = [path |-> path, kind |-> r.kind, backend |-> r.backend,
                             fwd |-> IF r.kind = "proxy" THEN StripPrefix(r, path) ELSE << >>,
                             inner |-> inner,
                             resp |-> IndexHtmlMiddleware(inner, dist["index.html"])]
    /\ UNCHANGED <<cfg, build_event_tx, runPc, buildVars, rcvd, serverPc, routes,
                   browser, clientVars>>

\* the client has read the response
RequestDone ==
    /\ http # NoHttp
    /\ http' = NoHttp
    /\ UNCHANGED <<cfg, build_event_tx, runPc, buildVars, rcvd, serverPc, routes,
                   browser, clientVars>>

(***************************************************************************)
(* GET /build_events: one loop per client connection.                      *)
(***************************************************************************)
\* a client connects: the sse endpoint starts its loop on state.build_event_rx
Connect(c) ==
    /\ serverPc = "listening"
    /\ FreeWorker
    /\ RouteFor(routes, <<"build_events">>).kind = "sse"
    /\ conn[c] = "none"
    /\ c > 1 => conn[c - 1] # "none"
    /\ conn' = [conn EXCEPT ![c] = "open"]
    /\ loop' = [loop EXCEPT ![c] = "running"]
    /\ subAt' = [subAt EXCEPT ![c] = Len(sent)]
    /\ UNCHANGED <<cfg, build_event_tx, runPc, buildVars, rcvd, serverPc, routes,
                   browser, taken, pushed, http>>

\* the message one iteration of the loop hands to sender.send, if any
SseMessages(ev) ==
    IF to_string(ev).ok
    THEN << [name |-> "build_event", data |-> to_string(ev).json] >>
    ELSE << >>

\* sender.send towards the client: the messages arrive while the connection
\* is open; on a closed connection send fails and the result is discarded
Deliver(cn, msgs) == IF cn = "open" THEN msgs ELSE << >>

\* one iteration: while let Ok(event) = build_event_rx.recv() { send }
LoopRecv(c) ==
    /\ loop[c] = "running"
    /\ rcvd < Len(sent)
    /\ rcvd' = rcvd + 1
    /\ taken' = [taken EXCEPT ![c] = Append(@, rcvd + 1)]
    /\ pushed' = [pushed EXCEPT ![c] = @ \o Deliver(conn[c], SseMessages(sent[rcvd + 1]))]
    /\ UNCHANGED <<cfg, build_event_tx, runPc, buildVars, serverPc, routes, browser,
                   conn, loop, subAt, http>>

\* recv() returns Err: the channel is empty and every Sender is dropped
LoopEnd(c) ==
    /\ loop[c] = "running"
    /\ rcvd = Len(sent)
    /\ build_event_tx = "Dropped"
    /\ loop' = [loop EXCEPT ![c] = "ended"]
    /\ UNCHANGED <<cfg, build_event_tx, runPc, buildVars, rcvd, serverPc, routes,
                   browser, conn, subAt, taken, pushed, http>>

\* the client closes its connection; nothing tells the loop
Disconnect(c) ==
    /\ conn[c] = "open"
    /\ conn' = [conn EXCEPT ![c] = "closed"]
    /\ UNCHANGED <<cfg, build_event_tx, runPc, buildVars, rcvd, serverPc, routes,
                   browser, loop, subAt, taken, pushed, http>>

(***************************************************************************)
(* The specification.                                                      *)
(***************************************************************************)
\* `trunk serve` builds a ServeSystem, whose new() always passes a Sender;
\* `trunk build` and `trunk watch` use a BuildSystem without one
Init ==
    /\ cfg \in Configs
    /\ build_event_tx \in {"Some", None}
    /\ build_event_tx = None =>
         cfg = [proxy_backend |-> NoneOpt, proxies |-> NoneOpt, hot_reload |-> FALSE, open |-> FALSE]
    /\ runPc = IF build_event_tx = "Some" THEN "start" ELSE "standalone"
    /\ buildPc = "idle"
    /\ buildNo = 0
    /\ res = None
    /\ returns = << >>
    /\ steps = << >>
    /\ progress = IdleProgress
    /\ sent = << >>
    /\ evBuild = << >>
    /\ rcvd = 0
    /\ dist = [f \in Files |-> 0]
    /\ serverPc = "none"
    /\ routes = {}
    /\ browser = FALSE
    /\ conn = [c \in Clients |-> "none"]
    /\ loop = [c \in Clients |-> "none"]
    /\ subAt = [c \in Clients |-> 0]
    /\ taken = [c \in Clients |-> << >>]
    /\ pushed = [c \in Clients |-> << >>]
    /\ http = NoHttp

\* the build system, ServeSystem::run and the server task
NextBuild ==
    \/ BuildStart
    \/ DoBuildCreateDir
    \/ DoBuildPipeline
    \/ BuildFinish
    \/ SpawnServer
    \/ ServerListen
    \/ OpenBrowser
    \/ WatchStop

\* plain requests: static files, fallback, proxies
NextRequests ==
    \/ Request
    \/ RequestDone

\* /build_events connections
NextClients ==
    \/ \E c \in Clients : Connect(c)
    \/ \E c \in Clients : LoopRecv(c)
    \/ \E c \in Clients : LoopEnd(c)
    \/ \E c \in Clients : Disconnect(c)

Next == NextBuild \/ NextRequests \/ NextClients

Spec == Init /\ [][Next]_vars

\* The request handlers and the /build_events loops share nothing but the
\* read-only State, so the two are also checked apart, each with the builds:
\* SpecServe has the plain requests under every configuration, SpecEvents the
\* /build_events connections under the configurations without proxies.
NextServe == NextBuild \/ NextRequests

SpecServe == Init /\ [][NextServe]_vars

InitEvents == Init /\ cfg.proxy_backend = NoneOpt /\ cfg.proxies = NoneOpt

NextEvents == NextBuild \/ NextClients

SpecEvents == InitEvents /\ [][NextEvents]_vars

\* What the scheduler guarantees: a step of a build in progress, of run(), of
\* the server task or of a /build_events loop is taken when it stays possible.
\* Nothing makes a file change (BuildStart), a client connect or disconnect,
\* or the watch loop end.
Fairness ==
    /\ WF_vars(DoBuildCreateDir)
    /\ WF_vars(DoBuildPipeline)
    /\ WF_vars(BuildFinish)
    /\ WF_vars(SpawnServer)
    /\ WF_vars(ServerListen)
    /\ WF_vars(OpenBrowser)
    /\ \A c \in Clients : WF_vars(LoopRecv(c)) /\ WF_vars(LoopEnd(c))

SpecEventsFair == SpecEvents /\ Fairness

\* Builds, plain requests and the first /build_events connection together,
\* under the configurations without proxies: one consumer of the bus next to
\* the requests.
NextFirstClient ==
    \/ Connect(1)
    \/ LoopRecv(1)
    \/ LoopEnd(1)
    \/ Disconnect(1)

NextLive == NextBuild \/ NextRequests \/ NextFirstClient

SpecLive == InitEvents /\ [][NextLive]_vars

(***************************************************************************)
(* Properties.                                                             *)
(***************************************************************************)
\* the clients whose connection is open and whose loop is running
Listening(c) == conn[c] = "open" /\ loop[c] = "running"

\* C1: with several consumers of the bus, every consumer observes every event
\* published after it subscribed: an event published after client c subscribed
\* that has left the bus was received by c's loop.
C1_EveryConsumerObservesEveryEvent ==
    \A c \in Clients :
        Listening(c) => \A i \in (subAt[c] + 1)..rcvd : i \in Range(taken[c])

\* C2: a consumer never observes an event published before it registered: every
\* event a client's loop received was published after the loop started.
C2_NoEventFromBeforeSubscription ==
    \A c \in Clients :
        \A k \in 1..Len(taken[c]) : taken[c][k] > subAt[c]

\* the terminal events the n-th call of build() sent
TerminalsOf(n) == {i \in 1..Len(sent) : evBuild[i] = n /\ IsTerminal(sent[i])}

\* C3: with an event channel configured, every call of build() that returned
\* published exactly one terminal event, Success iff it returned Ok and Error
\* iff it returned Err.
C3_OneTerminalEventAgreeingWithResult ==
    build_event_tx # None =>
        \A n \in 1..Len(returns) :
            /\ Cardinality(TerminalsOf(n)) = 1
            /\ \A i \in TerminalsOf(n) :
                 /\ sent[i].type = "Success" <=> returns[n] = "Ok"
                 /\ sent[i].type = "Error" <=> returns[n] # "Ok"

\* both outcomes happened: a build that returned Ok and one that returned Err
C3_Witness ==
    /\ build_event_tx # None
    /\ Len(returns) = 2
    /\ returns[1] = "Ok"
    /\ returns[2] = PipelineError
    /\ Len(sent) = 4

\* C4: the published sequence alternates Building, terminal, Building,
\* terminal, ...: the odd events are the Building events of builds 1, 2, ...,
\* and each even event is the terminal event of the build whose Building
\* event precedes it.
C4_BuildingThenTerminalAlternate ==
    \A i \in 1..Len(sent) :
        IF i % 2 = 1
        THEN sent[i] = Building /\ evBuild[i] = (i + 1) \div 2
        ELSE IsTerminal(sent[i]) /\ evBuild[i] = evBuild[i - 1]

\* two builds ran one after another and the second has sent its Building event
C4_Witness ==
    /\ Len(sent) = 3
    /\ buildNo = 2
    /\ buildPc \in {"create_dir", "pipeline", "finish"}

\* the response of a request to the static handler, as the claim C5 states it:
\* the file's bytes if the path names a file of the output tree, else the
\* bytes of index.html as 200 text/html
StaticResponseClaimed(path, d) ==
    IF Len(path) = 1 /\ path[1] \in Files /\ d[path[1]] # 0
    THEN Response(200, Mime(path[1]), NoHeaders, FileBody(path[1], d[path[1]]))
    ELSE Response(200, "text/html", NoHeaders, FileBody("index.html", d["index.html"]))

\* a request handled by the static handler gets its response in this step
StaticRequestStep == http = NoHttp /\ http' # NoHttp /\ http'.kind = "static"

\* C5 as stated: every GET handled by the static handler is answered 200, with
\* the file's bytes if the path matches a file and with the bytes of
\* index.html as text/html if it matches none.
C5_Original ==
    [][StaticRequestStep => http'.resp = StaticResponseClaimed(http'.path, dist)]_vars

\* C5 amended: the same, provided index.html exists when the path matches no
\* file; when index.html cannot be read the response is a 500 without body.
C5_FileOrFallback ==
    [][StaticRequestStep =>
         IF http'.inner.status = 404 /\ dist["index.html"] = 0
         THEN http'.resp = ErrorResponse
         ELSE http'.resp = StaticResponseClaimed(http'.path, dist)]_vars

\* a path that matches no file was answered with the document of build 1
C5_Witness ==
    /\ http.kind = "static"
    /\ http.path = <<"nofile">>
    /\ http.inner.status = 404
    /\ http.resp = Response(200, "text/html", NoHeaders, FileBody("index.html", 1))

\* C6: a request routed to a proxy handler whose backend answered gets exactly
\* the backend's status, headers and body, whatever the status.
C6_ProxyResponseVerbatim ==
    \A st \in BackendStatuses :
        (http.kind = "proxy" /\ http.inner = BackendResponse(http.backend, st))
            => http.resp = BackendResponse(http.backend, st)

\* C7: with both proxy_backend and proxies configured, the spawned server has
\* a handler for the single backend and one for every rule of the list.
C7_BothProxyFormsRegistered ==
    (serverPc # "none" /\ IsSome(cfg.proxy_backend) /\ IsSome(cfg.proxies)) =>
        /\ ProxyRoute(Unwrap(cfg.proxy_backend)) \in routes
        /\ \A i \in 1..Len(Unwrap(cfg.proxies)) :
             ProxyRoute(Unwrap(cfg.proxies)[i]) \in routes

\* C8: after a client has disconnected, its loop takes no further events from
\* the bus.
C8_NoEventTakenAfterDisconnect ==
    [][\A c \in Clients : conn[c] = "closed" => taken'[c] = taken[c]]_vars

\* the JSON payload the claim C9 states for an event
ExpectedJson(ev) ==
    IF ev.type = "Building" THEN << <<"type", "building">> >>
    ELSE IF ev.type = "Success" THEN << <<"type", "success">> >>
    ELSE << <<"type", "error">>, <<"error", ev.error>> >>

\* C9: every event the loop of a connected client received was pushed to it as
\* exactly one build_event message with the payload stated for the event.
C9_EveryEventPushedAsStated ==
    \A c \in Clients :
        conn[c] = "open" =>
            pushed[c] = [k \in 1..Len(taken[c]) |->
                           [name |-> "build_event", data |-> ExpectedJson(sent[taken[c][k]])]]

\* C10: IndexHtmlMiddleware returns the inner handler's response unchanged
\* (status, headers, body) whenever its status is not 404.
C10_OnlyNotFoundIsRewritten ==
    (http # NoHttp /\ http.inner.status # 404) => http.resp = http.inner

\* a server error of the inner handler passed through
C10_Witness ==
    /\ http.kind = "proxy"
    /\ http.inner.status = 500
    /\ http.inner.headers # NoHeaders
    /\ http.resp = http.inner

\* the value the last call of build() returned
LastReturn == returns[Len(returns)]

\* a call of build() has returned and no other is in progress
Returned == buildPc = "idle" /\ Len(returns) > 0

\* C11: publishing never blocks and never makes build() fail: whatever the
\* channel is (none configured, nobody receiving, every Receiver dropped, a
\* consumer listening), build() can always send its terminal event and go on,
\* and it returns the result of do_build.
C11_PublishNeitherBlocksNorFails ==
    /\ buildPc = "finish" => ENABLED BuildFinish
    /\ Returned => LastReturn = res

\* a build returned Ok although both of its sends failed on a channel whose
\* Receivers were all dropped
C11_Witness ==
    /\ Returned
    /\ steps[1] = "Err"
    /\ steps[Len(steps)] = "Err"
    /\ LastReturn = "Ok"

\* C12: the output directory is created before the pipeline is spawned, and
\* when its creation fails the pipeline is not spawned in that build, build()
\* returns that error and the Error event of that error is published.
C12_DirCreatedBeforePipeline ==
    /\ \A i \in 1..Len(steps) :
         steps[i] \in {"spawn", "spawn_failed"} => (i > 1 /\ steps[i - 1] = "create_dir")
    /\ "create_dir_failed" \in Range(steps) =>
         /\ Range(steps) \cap {"spawn", "spawn_failed"} = {}
         /\ buildPc \in {"finish", "idle"}
         /\ Returned =>
              /\ LastReturn = DirError
              /\ build_event_tx # None =>
                   (sent[Len(sent)] = Error(DirError) /\ evBuild[Len(sent)] = buildNo)

\* a build whose directory creation failed has returned
C12_Witness ==
    /\ Returned
    /\ "create_dir_failed" \in Range(steps)
    /\ build_event_tx # None
    /\ sent[Len(sent)] = Error(DirError)

\* the Error events the n-th call of build() sent
ErrorsOf(n) == {i \in 1..Len(sent) : evBuild[i] = n /\ sent[i].type = "Error"}

\* C13: when the pipeline's spawn() fails, build() returns that failure and
\* publishes exactly one Error event, whose message is the non-empty text of
\* the failure.
C13_PipelineFailureReported ==
    (Returned /\ "spawn_failed" \in Range(steps)) =>
        /\ LastReturn = PipelineError
        /\ build_event_tx # None =>
             /\ Cardinality(ErrorsOf(buildNo)) = 1
             /\ \A i \in ErrorsOf(buildNo) :
                  sent[i].error = PipelineError /\ sent[i].error # ""

\* a build whose pipeline failed has returned and its Error event is the last
\* event published
C13_Witness ==
    /\ Returned
    /\ "spawn_failed" \in Range(steps)
    /\ build_event_tx # None
    /\ sent[Len(sent)] = Error(PipelineError)

\* the proxy routes of the app
ProxyRoutesOf(rts) == {r \in rts : r.kind = "proxy"}

\* C14: with a list of proxy rules and no single backend, every rule has one
\* handler at its own prefix; a request under a rule's prefix goes to that
\* rule's backend with the prefix stripped, and a request under no rule's
\* prefix is handled by the static handler and never answered by a backend.
C14_ListRulesRouted ==
    (serverPc # "none" /\ ~IsSome(cfg.proxy_backend) /\ IsSome(cfg.proxies)) =>
        LET rules == Unwrap(cfg.proxies) IN
        /\ ProxyRoutesOf(routes) = {ProxyRoute(rules[i]) : i \in 1..Len(rules)}
        /\ Cardinality(ProxyRoutesOf(routes)) = Len(rules)
        /\ http # NoHttp =>
             /\ \A i \in 1..Len(rules) :
                  http.path[1] = rules[i].prefix =>
                      /\ http.kind = "proxy"
                      /\ http.backend = rules[i].backend
                      /\ http.fwd = Tail(http.path)
                      /\ http.inner.body[1] = "backend" => http.inner.body[2] = rules[i].backend
             /\ (\A i \in 1..Len(rules) : http.path[1] # rules[i].prefix) =>
                  /\ http.kind = "static"
                  /\ http.backend = None
                  /\ http.resp.body[1] # "backend"

\* with the list alone, /ws/y was answered by backend B, which saw /y
C14_Witness ==
    /\ ~IsSome(cfg.proxy_backend)
    /\ IsSome(cfg.proxies)
    /\ http.path = <<"ws", "y">>
    /\ http.fwd = <<"y">>
    /\ http.resp = BackendResponse("B", 200)

\* C15: the /build_events endpoint exists iff hot_reload is enabled; when it
\* is disabled no loop is ever started, no client is ever sent an event and a
\* GET /build_events is handled as a path that matches nothing: by the static
\* handler, whose 404 the middleware turns into the fallback.
C15_StreamOnlyWithHotReload ==
    /\ serverPc # "none" => ((\E r \in routes : r.kind = "sse") <=> cfg.hot_reload)
    /\ ~cfg.hot_reload =>
         /\ \A c \in Clients : conn[c] = "none" /\ loop[c] = "none" /\ pushed[c] = << >>
         /\ http.path = <<"build_events">> =>
              /\ http.kind = "static"
              /\ http.inner = Response(404, "none", NoHeaders, EmptyBody)
              /\ http.resp.status \in {200, 500}
              /\ http.resp.status = 200 =>
                   (http.resp.ctype = "text/html" /\ http.resp.body[2] = "index.html")

\* with hot_reload disabled, GET /build_events was answered with the fallback
C15_Witness ==
    /\ ~cfg.hot_reload
    /\ http.path = <<"build_events">>
    /\ http.resp.status = 200

\* C16: the browser is launched only after the server has begun listening.
C16_BrowserAfterListening ==
    browser => serverPc = "listening"

\* C17: when build() has returned the progress bar is finished, without
\* steady tick, showing success after Ok and error after Err; it ticks, and is
\* not finished, exactly while a build is in progress.
C17_ProgressMatchesResult ==
    /\ Returned =>
         progress = IF LastReturn = "Ok"
                    THEN ProgressState(FALSE, "SUCCESS", "success", TRUE)
                    ELSE ProgressState(FALSE, "ERROR", "error", TRUE)
    /\ buildPc # "idle" <=> progress.tick
    /\ buildPc # "idle" => ~progress.finished

\* a failed build has returned and the bar shows the error
C17_Witness ==
    /\ Returned
    /\ LastReturn = PipelineError
    /\ progress = ProgressState(FALSE, "ERROR", "error", TRUE)

\* C18: waiting for the next event does not keep other requests from being
\* served: whenever the server listens, it is eventually able to serve a
\* request, however many connected clients idle on /build_events (behaviours
\* in which a client disconnects are left to C8).
C18_RequestsEventuallyServed ==
    [](serverPc = "listening" =>
         <>(ENABLED Request \/ \E c \in Clients : conn[c] = "closed"))

\* C19: a not-found request answered with the fallback gets the bytes
\* index.html has when the request is handled, those of the latest build that
\* wrote it.
C19_FallbackReadAtRequest ==
    [][(http = NoHttp /\ http' # NoHttp /\ http'.inner.status = 404 /\ http'.resp.status = 200)
         => http'.resp.body = FileBody("index.html", dist["index.html"])]_vars

\* after a rebuild wrote index.html, a not-found request got the new document
C19_Witness ==
    /\ http.inner.status = 404
    /\ http.resp.body = FileBody("index.html", 2)
    /\ Len(returns) = 2

\* C20: run() finishes the initial build before it spawns the server and the
\* watch loop: when the server exists the initial build has returned and its
\* Building and terminal events are published, and while the initial build
\* runs there is no server, no request served and no client connected.
C20_InitialBuildBeforeServer ==
    /\ serverPc # "none" =>
         /\ Len(returns) >= 1
         /\ Len(sent) >= 2
         /\ sent[1] = Building /\ evBuild[1] = 1
         /\ IsTerminal(sent[2]) /\ evBuild[2] = 1
    /\ runPc \in {"start", "initial_build"} =>
         /\ serverPc = "none"
         /\ buildNo <= 1
         /\ http = NoHttp
         /\ \A c \in Clients : conn[c] = "none"

\* the server answers a request after the initial build and before any other
C20_Witness ==
    /\ serverPc = "listening"
    /\ Len(returns) = 1
    /\ buildNo = 1
    /\ http # NoHttp

====
